---- MODULE Spec2Model ----
(***************************************************************************)
(* Receipt ingestion pipeline of expensee-api: the OCR draft rows          *)
(* (ocr_results / ocr_result_items), the ledger rows (expense_history /    *)
(* expense_items) and the request handlers of app/api/routes/receipts.py   *)
(* and app/api/routes/expenses.py, each running in the session that        *)
(* app/core/db.py get_db hands to it.                                      *)
(*                                                                         *)
(* A nullable column or optional request field is <<>> (None / NULL) or    *)
(* <<v>>.  A value of the extractor's JSON is [t, s]: t is "absent",       *)
(* "str" or "num" and s its characters.                                    *)
(***************************************************************************)
EXTENDS Integers, Sequences, FiniteSets, TLC

VARIABLES ocr_results, expense_history, next_expense_id, lastResp, inflight, session,
          amount_call, date_call, items_call, image, limiter

vars == <<ocr_results, expense_history, next_expense_id, lastResp, inflight, session,
          amount_call, date_call, items_call, image, limiter>>

db_vars == <<ocr_results, expense_history, next_expense_id>>

\* The helpers of utils/ each work on a value of their own: amount_call,
\* date_call and items_call hold the argument and the result of one call of a
\* normaliser,
\* image the picture inside preprocess_image, limiter the RATE_LIMIT_STORE.
util_vars == <<amount_call, date_call, items_call, image, limiter>>

\* ---------------------------------------------------------------- bounds
MaxDrafts == 1

MaxExpenses == 1

\* longest amount string tried
MaxAmountLen == 5

\* longest list of line items handed to _validate_line_items
MaxItems == 2

\* largest width and height of an uploaded picture, in pixels
MaxDim == 210

\* the limiter instance explored, RateLimiter(window_size, max_requests), with
\* the clock in whole seconds running up to MaxTime
window_size == 3

max_requests == 2

MaxTime == 5

\* ------------------------------------------------------- reference data
Users == {"u1", "u2"}

\* rows of the categories table (read-only for this component)
categories == {"c1"}

\* rows of the user_categories table: user_category_id -> user_id
user_categories == [uc \in {"uc1", "uc2"} |-> IF uc = "uc1" THEN "u1" ELSE "u2"]

\* an id that names no row of either table
GhostCategory == "cX"

None == <<>>

Some(v) == <<v>>

\* Python truthiness of an optional string / optional number
TruthyStr(x) == x # None /\ x[1] # ""

TruthyNum(x) == x # None /\ x[1] # 0

\* Python `a or b`
OrStr(a, b) == IF TruthyStr(a) THEN a ELSE b

OrNum(a, b) == IF TruthyNum(a) THEN a ELSE b

\* ------------------------------------------------- extractor JSON values
Absent == [t |-> "absent", s |-> <<>>]

JStr(chars) == [t |-> "str", s |-> chars]

JNum(chars) == [t |-> "num", s |-> chars]

Digits == {"0", "1", "2", "3", "4", "5", "6", "7", "8", "9"}

DigitVal(c) == CASE c = "0" -> 0 [] c = "1" -> 1 [] c = "2" -> 2 [] c = "3" -> 3
                 [] c = "4" -> 4 [] c = "5" -> 5 [] c = "6" -> 6 [] c = "7" -> 7
                 [] c = "8" -> 8 [] c = "9" -> 9

\* str.replace('.', '')
RECURSIVE StripDots(_)
StripDots(s) == IF s = <<>> THEN <<>>
                ELSE IF Head(s) = "." THEN StripDots(Tail(s))
                ELSE <<Head(s)>> \o StripDots(Tail(s))

\* int(s) raises ValueError unless s is a non-empty run of digits
IntOk(s) == s # <<>> /\ \A i \in 1..Len(s) : s[i] \in Digits

RECURSIVE IntOf(_)
IntOf(s) == IF s = <<>> THEN 0 ELSE IntOf(SubSeq(s, 1, Len(s) - 1)) * 10 + DigitVal(s[Len(s)])

\* int(d.get(key, '0').replace('.', '')): a JSON number has no .replace (AttributeError)
MoneyRaises(j) == j.t = "num" \/ (j.t = "str" /\ ~IntOk(StripDots(j.s)))

MoneyOf(j) == IF j.t = "absent" THEN 0 ELSE IntOf(StripDots(j.s))

\* int(d.get('quantity', 1)): int() takes a number or a digit string
QtyRaises(j) == j.t # "absent" /\ ~IntOk(j.s)

QtyOf(j) == IF j.t = "absent" THEN 1 ELSE IntOf(j.s)

\* datetime.strptime(x, '%Y-%m-%d') if x else None
IsoDates == {"2024-05-01"}

DateRaises(j) == j.t = "num" \/ (j.t = "str" /\ j.s # <<>> /\ j.s[1] \notin IsoDates)

DateOf(j) == IF j.t = "absent" \/ j.s = <<>> THEN None ELSE Some(j.s[1])

\* ------------------------------------------------------------ draft rows
ReceiptStatus == {"pending", "processed", "accepted", "rejected"}

\* OCRResult(ocr_id, user_id, image_path, receipt_status=PENDING): every other column NULL
OCRResult(u) == [user_id |-> u, receipt_status |-> "pending",
                 merchant_name |-> None, total_amount |-> None,
                 transaction_date |-> None, payment_method |-> None,
                 category_id |-> None, user_category_id |-> None,
                 ocr_result_items |-> <<>>]

\* uuid.uuid4(): an id no row has
NewOcrId == Len(ocr_results) + 1

\* ------------------------------------------ what the extractor may return
Item(name, qty, price, total) == [name |-> name, quantity |-> qty, price |-> price, total |-> total]

GoodItemA == Item(JStr(<<"Latte">>), JStr(<<"2">>), JStr(<<"1", "0", ".", "0">>), Absent)

GoodItemB == Item(JStr(<<"Bagel">>), Absent, JStr(<<"2", "5">>), Absent)

\* the price came back as a JSON number ("Use integers for money")
BadItem == Item(JStr(<<"Tea">>), Absent, JNum(<<"5">>), Absent)

OcrData(kind, merchant, total, date, pay, items) ==
    [kind |-> kind, merchant_name |-> merchant, total_amount |-> total,
     transaction_date |-> date, payment_method |-> pay, items |-> items]

\* preprocess_image, upload_to_gcs or process_receipt_with_gemini raised / timed out
OcrRaises == OcrData("raise", Absent, Absent, Absent, None, <<>>)

\* _parse_response could not parse: {'error': ...}
OcrErrorMarker == OcrData("dict", Absent, Absent, Absent, None, <<>>)

OcrStarbucks == OcrData("dict", JStr(<<"STARBUCKS">>), JStr(<<"4", "5", ".", "0", "0", "0">>),
                        JStr(<<"2024-05-01">>), Some("Cash"), <<GoodItemA, GoodItemB>>)

OcrNumericTotal == OcrData("dict", JStr(<<"STARBUCKS">>), JNum(<<"4", "5">>),
                           JStr(<<"2024-05-01">>), Some("Cash"), <<GoodItemA>>)

OcrBadSecondItem == OcrData("dict", JStr(<<"STARBUCKS">>), JStr(<<"4", "5", ".", "0", "0", "0">>),
                            JStr(<<"2024-05-01">>), Some("Cash"), <<GoodItemA, BadItem>>)

\* find_category: the call or the parse raised, or a three-field answer came back
CatRaises == [kind |-> "raise", category_id |-> "c1", is_user_category |-> FALSE]

CatSystem == [kind |-> "ok", category_id |-> "c1", is_user_category |-> FALSE]

CatUser == [kind |-> "ok", category_id |-> "uc1", is_user_category |-> TRUE]

CatGhost == [kind |-> "ok", category_id |-> GhostCategory, is_user_category |-> FALSE]

\* What the category model may send back: the call raises (kind "raise"), or
\* text that is no JSON (json = None), or a JSON object (json = <<object>>)
ReplyRaises == [kind |-> "raise", json |-> None]

ReplyUnparseable == [kind |-> "text", json |-> None]

ReplyMissingField == [kind |-> "text", json |-> Some([category_id |-> "c1", category_name |-> "Food"])]

ReplySystem == [kind |-> "text",
                json |-> Some([category_id |-> "c1", category_name |-> "Food", is_user_category |-> FALSE])]

ReplyUser == [kind |-> "text",
              json |-> Some([category_id |-> "uc1", category_name |-> "Kopi", is_user_category |-> TRUE])]

CategoryReplies == {ReplyRaises, ReplyUnparseable, ReplyMissingField, ReplySystem, ReplyUser}

\* gemini.py _parse_response: the parsed object, or the error marker
ParseResponse(reply) == IF reply.json = None THEN [error |-> "Error parsing response"] ELSE reply.json[1]

\* result['category_id'], result['category_name'], result['is_user_category']
CategoryFields == {"category_id", "category_name", "is_user_category"}

\* a resolver that falls back on a default category when it has no answer
find_category_guesses(reply) ==
    IF reply.kind = "raise" \/ ~(CategoryFields \subseteq DOMAIN ParseResponse(reply)) THEN CatSystem
    ELSE [kind |-> "ok", category_id |-> ParseResponse(reply).category_id,
          is_user_category |-> ParseResponse(reply).is_user_category]

\* gemini.py find_category: generate_content raising propagates; a missing key
\* raises KeyError at lines 356-360
find_category(reply) ==
    IF reply.kind = "raise" \/ ~(CategoryFields \subseteq DOMAIN ParseResponse(reply)) THEN CatRaises
    ELSE [kind |-> "ok", category_id |-> ParseResponse(reply).category_id,
          is_user_category |-> ParseResponse(reply).is_user_category]

\* The upload requests tried: <<user, fault, extraction, category answer>>.  A
\* fault makes the request fail from outside: a rejected file name ("bad_ext")
\* or a commit the database refuses (of line 78, of line 119, of get_db).
UploadCases == {<<"u1", "bad_ext", OcrStarbucks, CatSystem>>,
                <<"u1", "none", OcrRaises, CatSystem>>,
                <<"u1", "commit1", OcrStarbucks, CatSystem>>,
                <<"u1", "none", OcrNumericTotal, CatSystem>>,
                <<"u1", "none", OcrErrorMarker, CatSystem>>,
                <<"u1", "none", OcrStarbucks, CatRaises>>,
                <<"u1", "none", OcrStarbucks, find_category(ReplyUnparseable)>>,
                <<"u1", "none", OcrStarbucks, find_category(ReplyMissingField)>>,
                <<"u1", "none", OcrStarbucks, find_category(ReplyUser)>>,
                <<"u1", "none", OcrStarbucks, CatSystem>>,
                <<"u1", "none", OcrStarbucks, CatUser>>,
                <<"u1", "none", OcrStarbucks, CatGhost>>,
                <<"u1", "commit2", OcrStarbucks, CatSystem>>,
                <<"u1", "none", OcrBadSecondItem, CatSystem>>,
                <<"u1", "exit_commit", OcrStarbucks, CatSystem>>,
                <<"u1", "exit_commit_late", OcrStarbucks, CatSystem>>,
                <<"u1", "exit_commit", OcrNumericTotal, CatSystem>>,
                <<"u2", "none", OcrStarbucks, CatSystem>>,
                <<"u2", "none", OcrNumericTotal, CatSystem>>}

\* foreign keys checked when a row is flushed
FkOk(row) == /\ (row.category_id = None \/ row.category_id[1] \in categories)
             /\ (row.user_category_id = None \/ row.user_category_id[1] \in DOMAIN user_categories)

\* lines 81-86: the assignments made to the in-memory row until one raises
ApplyExtraction(row, ocr) ==
    LET r1 == [row EXCEPT !.merchant_name =
                   IF ocr.merchant_name.t = "absent" THEN Some("Unknown") ELSE Some(ocr.merchant_name.s[1])]
        r2 == [r1 EXCEPT !.total_amount = Some(MoneyOf(ocr.total_amount))]
        r3 == [r2 EXCEPT !.transaction_date = DateOf(ocr.transaction_date)]
        r4 == [r3 EXCEPT !.payment_method = ocr.payment_method, !.receipt_status = "processed"]
    IN  IF MoneyRaises(ocr.total_amount) THEN [row |-> r1, raised |-> TRUE]
        ELSE IF DateRaises(ocr.transaction_date) THEN [row |-> r2, raised |-> TRUE]
        ELSE [row |-> r4, raised |-> FALSE]

\* lines 113-116
ApplyCategory(row, res) ==
    IF res.is_user_category THEN [row EXCEPT !.user_category_id = Some(res.category_id)]
    ELSE [row EXCEPT !.category_id = Some(res.category_id)]

\* lines 125-131: one OCRResultItem
ItemRaises(it) == MoneyRaises(it.price) \/ (it.total.t = "absent" /\ QtyRaises(it.quantity))

OCRResultItem(it) ==
    [name |-> IF it.name.t = "absent" THEN "Unknown Item" ELSE it.name.s[1],
     quantity |-> QtyOf(it.quantity),
     unit_price |-> MoneyOf(it.price),
     total_price |-> IF it.total.t = "absent" THEN MoneyOf(it.price) * QtyOf(it.quantity)
                     ELSE IntOf(it.total.s)]

\* lines 123-132: the items db.add()ed before the loop ends or raises
RECURSIVE AddedItems(_)
AddedItems(items) ==
    IF items = <<>> \/ ItemRaises(Head(items)) THEN <<>>
    ELSE <<OCRResultItem(Head(items))>> \o AddedItems(Tail(items))

\* get_db: what the session's closing commit (or rollback) leaves in the table.
\* committed is the table as of the handler's last successful commit, pending
\* the same with the session's unflushed changes applied.
get_db(committed, pending, raised, commitFails) ==
    IF raised \/ commitFails THEN committed ELSE pending

\* What a request leaves to be observed: the handler, the caller, the draft id
\* named in the request (for upload: the id drawn at line 70, 0 if that line was
\* not reached), the status or error_code of the response, the expense id named
\* or returned (0 if none), what the handler logged at line 135 and how many
\* line items the extractor had returned.
Resp(op, u, id, status) ==
    [op |-> op, user_id |-> u, ocr_id |-> id, status |-> status, expense_id |-> 0,
     logged |-> "none", n_items |-> 0]

RespE(op, u, id, status, eid) ==
    [op |-> op, user_id |-> u, ocr_id |-> id, status |-> status, expense_id |-> eid,
     logged |-> "none", n_items |-> 0]

RespU(u, id, status, logged, n) ==
    [op |-> "upload", user_id |-> u, ocr_id |-> id, status |-> status, expense_id |-> 0,
     logged |-> logged, n_items |-> n]

\* lines 139-151 answer with an ocr_id; every other outcome is an error response
UploadSucceeded(resp) == resp.status \in {"complete", "pending"}

\* upload_receipt_gemini: the table and the response when the request has ended
UploadOutcome(u, fault, ocr, res) ==
    LET id      == NewOcrId
        n       == Len(ocr.items)
        created == Append(ocr_results, OCRResult(u))
        ext     == ApplyExtraction(OCRResult(u), ocr)
        withCat == ApplyCategory(ext.row, res)
        added   == AddedItems(ocr.items)
        exitFails == fault \in {"exit_commit", "exit_commit_late"}
        \* the closing commit fails before ("exit_commit") or after the response left
        exitResp(st, logged) == IF fault = "exit_commit" THEN RespU(u, id, "server_error", logged, n)
                                ELSE RespU(u, id, st, logged, n)
        WithRow(r) == [created EXCEPT ![id] = r]
    IN  IF fault = "bad_ext"
        THEN [rows |-> ocr_results, resp |-> RespU(u, 0, "validation_error", "none", 0)]
        ELSE IF ocr.kind = "raise"
        \* line 139 reads ocr_result, which was never bound
        THEN [rows |-> ocr_results, resp |-> RespU(u, 0, "server_error", "extraction", 0)]
        ELSE IF fault = "commit1"
        \* the row is transient and still says PENDING; nothing was inserted
        THEN [rows |-> ocr_results, resp |-> RespU(u, id, "pending", "commit", n)]
        ELSE IF ext.raised
        THEN [rows |-> get_db(created, WithRow(ext.row), FALSE, exitFails),
              resp |-> exitResp("pending", "parse")]
        ELSE IF res.kind = "raise"
        THEN [rows |-> get_db(created, WithRow(ext.row), FALSE, exitFails),
              resp |-> exitResp("complete", "resolver")]
        ELSE IF fault = "commit2" \/ ~FkOk(withCat)
        \* the rollback expired the row; reading it at line 139 raises
        THEN [rows |-> get_db(created, created, TRUE, FALSE),
              resp |-> RespU(u, id, "server_error", "commit", n)]
        ELSE [rows |-> get_db(WithRow(withCat),
                              WithRow([withCat EXCEPT !.ocr_result_items = added]),
                              FALSE, exitFails),
              resp |-> exitResp("complete", IF Len(added) < n THEN "item" ELSE "none")]

upload_receipt_gemini ==
    /\ Len(ocr_results) < MaxDrafts
    /\ \E c \in UploadCases :
         LET out == UploadOutcome(c[1], c[2], c[3], c[4])
         IN  /\ ocr_results' = out.rows
             /\ lastResp' = out.resp
    /\ UNCHANGED <<expense_history, next_expense_id, inflight, session, util_vars>>

\* ids a request may name: every id in use and one that names nothing
OcrIds == 1..(MaxDrafts + 1)

\* select(OCRResult).where(ocr_id == id, user_id == u)
OwnedDraft(u, id) == id \in 1..Len(ocr_results) /\ ocr_results[id].user_id = u

\* a handler that tells a draft of another user from a draft that does not exist
ReceiptStatusResponse_forbidden(u, id) ==
    IF OwnedDraft(u, id) THEN ocr_results[id].receipt_status
    ELSE IF id \in 1..Len(ocr_results) THEN "forbidden"
    ELSE "resource_not_found"

\* lines 174-204: the status field of the answer, or the error_code of the 404
ReceiptStatusResponse(u, id) ==
    IF OwnedDraft(u, id) THEN ocr_results[id].receipt_status ELSE "resource_not_found"

\* lines 222-239
OCRResultResponse(u, id) == IF OwnedDraft(u, id) THEN "ok" ELSE "resource_not_found"

\* lines 293-312
OCRFeedbackResponse(u, id) == IF OwnedDraft(u, id) THEN "success" ELSE "resource_not_found"

get_receipt_status ==
    /\ \E u \in Users, id \in OcrIds :
         lastResp' = Resp("status", u, id, ReceiptStatusResponse(u, id))
    /\ UNCHANGED <<db_vars, inflight, session, util_vars>>

get_receipt_ocr_results ==
    /\ \E u \in Users, id \in OcrIds :
         lastResp' = Resp("get", u, id, OCRResultResponse(u, id))
    /\ UNCHANGED <<db_vars, inflight, session, util_vars>>

\* feedback that sends the draft back to review
FeedbackRows_reopens(u, id) ==
    IF OwnedDraft(u, id) THEN [ocr_results EXCEPT ![id].receipt_status = "processed"]
    ELSE ocr_results

\* the feedback is not stored: db.commit() has nothing to write
FeedbackRows(u, id) == ocr_results

submit_ocr_feedback ==
    /\ \E u \in Users, id \in OcrIds :
         /\ lastResp' = Resp("feedback", u, id, OCRFeedbackResponse(u, id))
         /\ ocr_results' = FeedbackRows(u, id)
    /\ UNCHANGED <<expense_history, next_expense_id, inflight, session, util_vars>>

\* --------------------------------------------------------------- accept
\* schemas/receipt.py OCRResultItem, as sent in a request
RequestItem == [name |-> "Latte", quantity |-> 2, unit_price |-> 10, total_price |-> 20]

\* (category_id, user_category_id) pairs a request may carry: none, a system
\* category, a user category (u1's own, another user's for u2), both, and an
\* id that names nothing
NoCategory == <<None, None>>

SystemCategory == <<Some("c1"), None>>

UserCategory == <<None, Some("uc1")>>

BothCategories == <<Some("c1"), Some("uc1")>>

UnknownCategory == <<Some(GhostCategory), None>>

NoCorrections == [merchant_name |-> None, total_amount |-> None,
                  transaction_date |-> None, payment_method |-> None]

Corrections == [merchant_name |-> Some("Kopi"), total_amount |-> Some(50000),
                transaction_date |-> Some("2024-06-02"), payment_method |-> Some("QRIS")]

ZeroTotal == [merchant_name |-> None, total_amount |-> Some(0),
              transaction_date |-> None, payment_method |-> None]

AcceptOCRRequest(f, cat, items) ==
    [merchant_name |-> f.merchant_name, total_amount |-> f.total_amount,
     transaction_date |-> f.transaction_date, payment_method |-> f.payment_method,
     category_id |-> cat[1], user_category_id |-> cat[2], items |-> items]

AcceptRequests == {AcceptOCRRequest(NoCorrections, NoCategory, <<>>),
                   AcceptOCRRequest(NoCorrections, SystemCategory, <<>>),
                   AcceptOCRRequest(Corrections, UserCategory, <<RequestItem>>),
                   AcceptOCRRequest(NoCorrections, BothCategories, <<>>),
                   AcceptOCRRequest(NoCorrections, UnknownCategory, <<>>),
                   AcceptOCRRequest(ZeroTotal, SystemCategory, <<>>)}

\* The accept requests tried: <<request, whether the database refuses the
\* commit of line 451>>
AcceptCases == {<<req, FALSE>> : req \in AcceptRequests}
                 \cup {<<AcceptOCRRequest(NoCorrections, SystemCategory, <<>>), TRUE>>,
                       <<AcceptOCRRequest(Corrections, UserCategory, <<RequestItem>>), TRUE>>}

\* lines 345-353
CategoryNotSpecified(req) == req.category_id = None /\ req.user_category_id = None

\* the check of line 361 left out
AlreadyAccepted_never(row) == FALSE

\* line 361: the check that refuses the request
AlreadyAccepted(row) == row.receipt_status = "accepted"

\* the assignments of lines 383-386 without the status change of line 382
AcceptedRow_unmarked(row, req) ==
    [row EXCEPT !.merchant_name = OrStr(req.merchant_name, row.merchant_name),
                !.total_amount = OrNum(req.total_amount, row.total_amount),
                !.transaction_date = OrStr(req.transaction_date, row.transaction_date),
                !.payment_method = OrStr(req.payment_method, row.payment_method)]

\* lines 382-386: the in-memory row after the handler's assignments
AcceptedRow(row, req) ==
    [row EXCEPT !.receipt_status = "accepted",
                !.merchant_name = OrStr(req.merchant_name, row.merchant_name),
                !.total_amount = OrNum(req.total_amount, row.total_amount),
                !.transaction_date = OrStr(req.transaction_date, row.transaction_date),
                !.payment_method = OrStr(req.payment_method, row.payment_method)]

\* lines 388-402: db.execute() hands back a Result object whenever an id was
\* given, whether or not a row matched; None when no id was given
CategoryLookup(id) == IF id # None THEN Some("Result") ELSE None

\* line 404
LookupRejects(req) ==
    CategoryLookup(req.category_id) = None /\ CategoryLookup(req.user_category_id) = None

ExpenseItems(u, items) ==
    [i \in 1..Len(items) |-> [user_id |-> u, name |-> items[i].name, quantity |-> items[i].quantity,
                              unit_price |-> items[i].unit_price, total_price |-> items[i].total_price]]

\* lines 415-437 and 443
AcceptedExpense(u, id, row, req, eid) ==
    [expense_id |-> eid, user_id |-> u, ocr_id |-> id,
     merchant_name |-> OrStr(OrStr(req.merchant_name, row.merchant_name), Some("Unknown Merchant")),
     total_amount |-> OrNum(OrNum(req.total_amount, row.total_amount), Some(0)),
     transaction_date |-> OrStr(OrStr(req.transaction_date, row.transaction_date), Some("utcnow")),
     payment_method |-> OrStr(req.payment_method, row.payment_method),
     category_id |-> req.category_id, user_category_id |-> req.user_category_id,
     is_manual_entry |-> FALSE,
     expense_items |-> ExpenseItems(u, req.items)]

\* an UPDATE writes the columns whose in-memory value differs from the loaded one
Flush(persisted, loaded, mem) ==
    [c \in DOMAIN persisted |-> IF mem[c] # loaded[c] THEN mem[c] ELSE persisted[c]]

\* the draft committed on its own before the expense is inserted
AcceptCommit_split(id, loaded, mem, expense, fails) ==
    [drafts |-> [ocr_results EXCEPT ![id] = Flush(ocr_results[id], loaded, mem)],
     expenses |-> IF fails THEN expense_history ELSE expense_history \cup {expense}]

\* line 451: one transaction holds the UPDATE of the draft and the INSERTs
AcceptCommit(id, loaded, mem, expense, fails) ==
    IF fails THEN [drafts |-> ocr_results, expenses |-> expense_history]
    ELSE [drafts |-> [ocr_results EXCEPT ![id] = Flush(ocr_results[id], loaded, mem)],
          expenses |-> expense_history \cup {expense}]

\* what the handler decides from the request and the row it loaded
AcceptCheck(u, id, req) ==
    IF CategoryNotSpecified(req) THEN "category_not_specified"
    \* scalar_one() raises NoResultFound, reported by the handler's catch-all
    ELSE IF ~OwnedDraft(u, id) THEN "server_error"
    ELSE IF AlreadyAccepted(ocr_results[id]) THEN "ocr_result_has_been_accepted"
    ELSE IF LookupRejects(req) THEN "category_not_found"
    ELSE "proceed"

\* accept_ocr_results run from start to end with no other request in between
accept_ocr_results ==
    \E u \in Users, id \in OcrIds, c \in AcceptCases :
      LET req   == c[1]
          commitFails == c[2]
          check == AcceptCheck(u, id, req)
      IN  IF check # "proceed"
          THEN /\ lastResp' = Resp("accept", u, id, check)
               /\ UNCHANGED <<db_vars, inflight, session, util_vars>>
          ELSE LET loaded  == ocr_results[id]
                   mem     == AcceptedRow(loaded, req)
                   expense == AcceptedExpense(u, id, mem, req, next_expense_id)
                   fails   == commitFails \/ ~FkOk(expense)
                   out     == AcceptCommit(id, loaded, mem, expense, fails)
               IN  /\ ocr_results' = out.drafts
                   /\ expense_history' = out.expenses
                   /\ next_expense_id' = IF fails THEN next_expense_id ELSE next_expense_id + 1
                   /\ lastResp' = IF fails THEN Resp("accept", u, id, "server_error")
                                  ELSE RespE("accept", u, id, "success", next_expense_id)
                   /\ UNCHANGED <<inflight, session, util_vars>>

\* ------------------------------------------------------ the ledger's CRUD
\* schemas/expense.py ExpenseHistoryCreate / ExpenseHistoryUpdate
ExpenseRequest(cat, items) ==
    [merchant_name |-> Some("Warung"), total_amount |-> Some(12000),
     transaction_date |-> Some("2024-07-03"), payment_method |-> None,
     category_id |-> cat[1], user_category_id |-> cat[2], items |-> items]

ExpenseRequests == {ExpenseRequest(NoCategory, <<>>),
                    ExpenseRequest(SystemCategory, <<>>),
                    ExpenseRequest(UserCategory, <<RequestItem>>),
                    ExpenseRequest(BothCategories, <<>>),
                    ExpenseRequest(UnknownCategory, <<>>)}

\* ids a request may name: every id that can be in use and one that never is
ExpenseIds == 1..(MaxExpenses + MaxDrafts + 1)

\* the validation both create_expense and update_expense start with
CategoryValidation(u, req) ==
    IF req.category_id = None /\ req.user_category_id = None THEN "bad_request"
    ELSE IF req.category_id # None /\ req.user_category_id # None THEN "bad_request"
    ELSE IF req.category_id # None /\ req.category_id[1] \notin categories THEN "category_not_found"
    ELSE IF /\ req.user_category_id # None
            /\ ~(/\ req.user_category_id[1] \in DOMAIN user_categories
                 /\ user_categories[req.user_category_id[1]] = u)
    THEN "user_category_not_found"
    ELSE "proceed"

\* lines 329-354
CreatedExpense(u, req, eid) ==
    [expense_id |-> eid, user_id |-> u, ocr_id |-> 0,
     merchant_name |-> OrStr(req.merchant_name, Some("Unknown Merchant")),
     total_amount |-> OrNum(req.total_amount, Some(0)),
     transaction_date |-> OrStr(req.transaction_date, Some("utcnow")),
     payment_method |-> OrStr(req.payment_method, Some("Unknown")),
     category_id |-> req.category_id, user_category_id |-> req.user_category_id,
     is_manual_entry |-> TRUE,
     expense_items |-> ExpenseItems(u, req.items)]

create_expense ==
    \E u \in Users, req \in ExpenseRequests, commitFails \in BOOLEAN :
      LET check == CategoryValidation(u, req)
      IN  IF check # "proceed"
          THEN /\ lastResp' = Resp("create_expense", u, 0, check)
               /\ UNCHANGED <<db_vars, inflight, session, util_vars>>
          ELSE /\ next_expense_id <= MaxExpenses
               /\ expense_history' = get_db(expense_history,
                                            expense_history \cup {CreatedExpense(u, req, next_expense_id)},
                                            commitFails, FALSE)
               /\ next_expense_id' = IF commitFails THEN next_expense_id ELSE next_expense_id + 1
               /\ lastResp' = IF commitFails
                              THEN Resp("create_expense", u, 0, "internal_server_error")
                              ELSE RespE("create_expense", u, 0, "created", next_expense_id)
               /\ UNCHANGED <<ocr_results, inflight, session, util_vars>>

ExpenseById(eid) == {e \in expense_history : e.expense_id = eid}

\* lines 489-509
UpdatedExpense(u, e, req) ==
    [e EXCEPT !.merchant_name = OrStr(req.merchant_name, e.merchant_name),
              !.total_amount = OrNum(req.total_amount, e.total_amount),
              !.transaction_date = OrStr(req.transaction_date, e.transaction_date),
              !.payment_method = OrStr(req.payment_method, e.payment_method),
              !.category_id = req.category_id,
              !.user_category_id = req.user_category_id,
              !.is_manual_entry = TRUE,
              !.expense_items = ExpenseItems(u, req.items)]

\* an item taken out of its expense (replaced, or its expense deleted) is
\* flushed with expense_history_id = NULL, which the column refuses
OrphansItems(e) == e.expense_items # <<>>

update_expense ==
    \E u \in Users, eid \in ExpenseIds, req \in ExpenseRequests, commitFails \in BOOLEAN :
      LET check == CategoryValidation(u, req)
          found == {e \in ExpenseById(eid) : e.user_id = u}
      IN  IF check # "proceed"
          THEN /\ lastResp' = RespE("update_expense", u, 0, check, eid)
               /\ UNCHANGED <<db_vars, inflight, session, util_vars>>
          ELSE IF found = {}
          THEN /\ lastResp' = RespE("update_expense", u, 0, "resource_not_found", eid)
               /\ UNCHANGED <<db_vars, inflight, session, util_vars>>
          ELSE \E e \in found :
                 LET raised == commitFails \/ OrphansItems(e)
                 IN  /\ expense_history' = get_db(expense_history,
                                                  (expense_history \ {e}) \cup {UpdatedExpense(u, e, req)},
                                                  raised, FALSE)
                     /\ lastResp' = RespE("update_expense", u, 0,
                                          IF raised THEN "server_error" ELSE "update successfully", eid)
                     /\ UNCHANGED <<ocr_results, next_expense_id, inflight, session, util_vars>>

\* lines 382-385: the WHERE clause compares the users table, not the expense's
\* user_id, with the caller: every expense of that id matches
DropSelect(u, eid) == ExpenseById(eid)

\* a delete that cascades to the draft the expense came from and reopens it
DraftsAfterDrop_cascades(e) ==
    IF e.ocr_id \in 1..Len(ocr_results)
    THEN [ocr_results EXCEPT ![e.ocr_id].receipt_status = "processed"]
    ELSE ocr_results

\* expense_history.py line 55: ocr_result is a many-to-one relationship with no
\* delete cascade, so db.delete(expense_history) writes no draft row
DraftsAfterDrop(e) == ocr_results

drop_expense ==
    \E u \in Users, eid \in ExpenseIds, commitFails \in BOOLEAN :
      LET found == DropSelect(u, eid)
      IN  IF found = {}
          THEN /\ lastResp' = RespE("drop_expense", u, 0, "bad_request", eid)
               /\ UNCHANGED <<db_vars, inflight, session, util_vars>>
          ELSE \E e \in found :
                 LET raised == commitFails \/ OrphansItems(e)
                 IN  /\ expense_history' = get_db(expense_history, expense_history \ {e}, raised, FALSE)
                     /\ ocr_results' = get_db(ocr_results, DraftsAfterDrop(e), raised, FALSE)
                     /\ lastResp' = RespE("drop_expense", u, 0,
                                          IF raised THEN "server_error" ELSE "ok", eid)
                     /\ UNCHANGED <<next_expense_id, inflight, session, util_vars>>

\* ------------------------------------------- two accept requests at once
\* Each request has its own session (get_db); the handler yields at every
\* await, so another request may run between the SELECT of line 359 and the
\* commit of line 451.
Slots == {"r1", "r2"}

Idle == [pc |-> "idle", user_id |-> "u1", ocr_id |-> 0,
         req |-> AcceptOCRRequest(NoCorrections, NoCategory, <<>>),
         loaded |-> OCRResult("u1")]

\* lines 345-412: the request reads the draft, passes or fails the checks and
\* holds the row it changed in its session
accept_select(r) ==
    /\ inflight[r].pc = "idle"
    /\ \E u \in Users, id \in OcrIds, req \in AcceptRequests :
         LET check == AcceptCheck(u, id, req)
         IN  IF check # "proceed"
             THEN /\ lastResp' = Resp("accept", u, id, check)
                  /\ UNCHANGED inflight
             ELSE /\ inflight' = [inflight EXCEPT ![r] =
                                    [pc |-> "checked", user_id |-> u, ocr_id |-> id,
                                     req |-> req, loaded |-> ocr_results[id]]]
                  /\ UNCHANGED lastResp
    /\ UNCHANGED <<db_vars, session, util_vars>>

\* lines 414-462: the commit under READ COMMITTED, the engine's default
accept_commit(r) ==
    /\ inflight[r].pc = "checked"
    /\ \E commitFails \in BOOLEAN :
         LET s       == inflight[r]
             mem     == AcceptedRow(s.loaded, s.req)
             expense == AcceptedExpense(s.user_id, s.ocr_id, mem, s.req, next_expense_id)
             fails   == commitFails \/ ~FkOk(expense)
             out     == AcceptCommit(s.ocr_id, s.loaded, mem, expense, fails)
         IN  /\ ocr_results' = out.drafts
             /\ expense_history' = out.expenses
             /\ next_expense_id' = IF fails THEN next_expense_id ELSE next_expense_id + 1
             /\ lastResp' = IF fails THEN Resp("accept", s.user_id, s.ocr_id, "server_error")
                            ELSE RespE("accept", s.user_id, s.ocr_id, "success", next_expense_id)
    /\ inflight' = [inflight EXCEPT ![r] = Idle]
    /\ UNCHANGED <<session, util_vars>>

\* ------------------------------------------ one upload request, step by step
\* The request's AsyncSession: where the handler stands (pc), the request it
\* serves (case, an element of UploadCases), whether the session has a
\* transaction open (txn: SQLAlchemy begins one at the first statement after a
\* commit and keeps it until the next commit or rollback) and the external
\* service the handler is waiting for (call).
IdleSession == [pc |-> "idle", case |-> <<"u1", "none", OcrRaises, CatRaises>>,
                txn |-> FALSE, call |-> "none"]

At(pc) == session.pc = pc

Goto(pc, txn, call) == session' = [session EXCEPT !.pc = pc, !.txn = txn, !.call = call]

\* dependencies.py get_current_user: the SELECT on users runs in the session
\* that get_db created for the request and begins its transaction
upload_authenticate ==
    /\ At("idle")
    /\ Len(ocr_results) < MaxDrafts
    /\ \E c \in UploadCases :
         session' = [pc |-> "validate", case |-> c, txn |-> TRUE, call |-> "none"]
    /\ UNCHANGED <<db_vars, lastResp, inflight, util_vars>>

\* lines 46-66: the extension check, preprocess_image, then upload_to_gcs
upload_to_gcs ==
    /\ At("validate")
    /\ IF session.case[2] = "bad_ext" THEN Goto("respond", session.txn, "none")
       ELSE Goto("gcs", session.txn, "object_store")
    /\ UNCHANGED <<db_vars, lastResp, inflight, util_vars>>

\* line 68: the object store answered; the extraction call starts
process_receipt_with_gemini ==
    /\ At("gcs")
    /\ Goto("extract", session.txn, "extraction")
    /\ UNCHANGED <<db_vars, lastResp, inflight, util_vars>>

\* the extraction call returned or raised
upload_extracted ==
    /\ At("extract")
    /\ IF session.case[3].kind = "raise" THEN Goto("respond", session.txn, "none")
       ELSE Goto("insert", session.txn, "none")
    /\ UNCHANGED <<db_vars, lastResp, inflight, util_vars>>

\* lines 77-78: db.add and db.commit; a refused commit rolls back
upload_insert ==
    /\ At("insert")
    /\ IF session.case[2] = "commit1" THEN Goto("respond", FALSE, "none")
       ELSE Goto("refresh", FALSE, "none")
    /\ UNCHANGED <<db_vars, lastResp, inflight, util_vars>>

\* lines 79-86: db.refresh is a SELECT, which begins the next transaction;
\* then the assignments, which may raise
upload_refresh ==
    /\ At("refresh")
    /\ IF ApplyExtraction(OCRResult(session.case[1]), session.case[3]).raised
       THEN Goto("respond", TRUE, "none")
       ELSE Goto("categories", TRUE, "none")
    /\ UNCHANGED <<db_vars, lastResp, inflight, util_vars>>

\* lines 88-111: the two SELECTs on the category tables, then find_category
upload_find_category ==
    /\ At("categories")
    /\ Goto("resolve", TRUE, "category")
    /\ UNCHANGED <<db_vars, lastResp, inflight, util_vars>>

\* lines 111-119: the resolver returned or raised; on an answer the category is
\* set and committed
upload_save ==
    /\ At("resolve")
    /\ IF session.case[4].kind = "raise" THEN Goto("respond", session.txn, "none")
       ELSE Goto("saved", FALSE, "none")
    /\ UNCHANGED <<db_vars, lastResp, inflight, util_vars>>

\* lines 120-132: db.refresh (not reached when the commit of line 119 failed),
\* then the items are added
upload_items ==
    /\ At("saved")
    /\ LET c == session.case
           withCat == ApplyCategory(ApplyExtraction(OCRResult(c[1]), c[3]).row, c[4])
       IN  IF c[2] = "commit2" \/ ~FkOk(withCat) THEN Goto("respond", FALSE, "none")
           ELSE Goto("respond", TRUE, "none")
    /\ UNCHANGED <<db_vars, lastResp, inflight, util_vars>>

\* lines 139-164 and get_db's commit or rollback: the request ends
upload_respond ==
    /\ At("respond")
    /\ LET c == session.case
           out == UploadOutcome(c[1], c[2], c[3], c[4])
       IN  /\ ocr_results' = out.rows
           /\ lastResp' = out.resp
    /\ session' = IdleSession
    /\ UNCHANGED <<expense_history, next_expense_id, inflight, util_vars>>

\* ------------------------------------------------------------- utils/aws.py
api_vars == <<db_vars, lastResp, inflight, session>>

\* a helper that has not been called: its argument and no result yet
NotCalled(arg) == [arg |-> arg, done |-> FALSE, result |-> <<>>]

Returned(arg, result) == [arg |-> arg, done |-> TRUE, result |-> result]

\* str.replace(c, with) on a sequence of characters; with is <<>> or one character
RECURSIVE Replace(_, _, _)
Replace(s, c, with) ==
    IF s = <<>> THEN <<>>
    ELSE (IF Head(s) = c THEN with ELSE <<Head(s)>>) \o Replace(Tail(s), c, with)

\* c in s
Contains(s, c) == \E i \in 1..Len(s) : s[i] = c

\* s.index(c): the first position of c
IndexOf(s, c) == CHOOSE i \in 1..Len(s) : s[i] = c /\ \A j \in 1..(i - 1) : s[j] # c

\* len(s.split(c)[-1]): the characters after the last c
LenAfterLast(s, c) ==
    LET last == CHOOSE i \in 1..Len(s) : s[i] = c /\ \A j \in (i + 1)..Len(s) : s[j] # c
    IN  Len(s) - last

\* re.sub(r'[^\d.,]', '', s)
RECURSIVE KeepAmountChars(_)
KeepAmountChars(s) ==
    IF s = <<>> THEN <<>>
    ELSE (IF Head(s) \in Digits \cup {",", "."} THEN <<Head(s)>> ELSE <<>>)
         \o KeepAmountChars(Tail(s))

\* aws.py _validate_amount_str
ValidateAmountStr(amount_str) ==
    LET s == KeepAmountChars(amount_str)
    IN  IF Contains(s, ",") /\ Contains(s, ".")
        THEN IF IndexOf(s, ",") > IndexOf(s, ".")
             THEN Replace(s, ",", <<>>)
             ELSE Replace(Replace(s, ".", <<>>), ",", <<".">>)
        ELSE IF Contains(s, ",")
        THEN IF LenAfterLast(s, ",") <= 2
             THEN Replace(s, ",", <<".">>)
             ELSE Replace(s, ",", <<>>)
        ELSE s

\* the amount strings tried: every string of up to MaxAmountLen characters
\* over a digit, both separators and a currency sign, and two written-out
\* amounts
AmountStrings ==
    UNION {[1..n -> {"1", ",", ".", "$"}] : n \in 0..MaxAmountLen}
    \cup {<<"1", ".", "2", "3", "4", ",", "5", "6">>,
          <<"1", ",", "2", "3", "4", ".", "5", "6">>}

validate_amount_str ==
    /\ ~amount_call.done
    /\ amount_call' = Returned(amount_call.arg, ValidateAmountStr(amount_call.arg))
    /\ UNCHANGED <<api_vars, date_call, items_call, image, limiter>>

\* date_formats, in the order of lines 315-322.  order says which directive
\* reads which of the three numbers of a string f1 sep f2 sep f3; the formats
\* with a month name hold spaces and match no string of this shape.
DateFormat(order, sep) == [order |-> order, sep |-> sep]

date_formats ==
    <<DateFormat("mdY", "/"), DateFormat("dmY", "/"), DateFormat("Ymd", "/"),
      DateFormat("mdY", "-"), DateFormat("dmY", "-"), DateFormat("Ymd", "-"),
      DateFormat("mdY", "."), DateFormat("dmY", "."), DateFormat("Ymd", "."),
      DateFormat("named", " "), DateFormat("named", " "), DateFormat("named", " "),
      DateFormat("named", " "), DateFormat("named", " "), DateFormat("named", " "),
      DateFormat("mdy", "/"), DateFormat("dmy", "/"),
      DateFormat("mdy", "-"), DateFormat("dmy", "-")>>

\* %Y reads four digits
FourDigitYear(v) == v \in 1000..9999

\* datetime.strptime(date_str, fmt): the date, or None for ValueError.
\* %y reads two digits (00-68 are 20xx, 69-99 are 19xx); a month outside 1..12
\* or a day the month does not have is a ValueError.
Strptime(ds, fmt) ==
    LET IsLeap(y) == y % 4 = 0 /\ (y % 100 # 0 \/ y % 400 = 0)
        DaysIn(m, y) == IF m = 2 THEN (IF IsLeap(y) THEN 29 ELSE 28)
                        ELSE IF m \in {4, 6, 9, 11} THEN 30 ELSE 31
        DateOrNone(y, m, d) ==
            IF m \in 1..12 /\ d \in 1..DaysIn(m, y) THEN Some([y |-> y, m |-> m, d |-> d]) ELSE None
        TwoDigitYear(v) == v \in 10..99
        CenturyOf(v) == IF v <= 68 THEN 2000 + v ELSE 1900 + v
    IN  IF fmt.order = "named" \/ fmt.sep # ds.sep THEN None
        ELSE CASE fmt.order = "mdY" -> IF FourDigitYear(ds.f3) THEN DateOrNone(ds.f3, ds.f1, ds.f2) ELSE None
               [] fmt.order = "dmY" -> IF FourDigitYear(ds.f3) THEN DateOrNone(ds.f3, ds.f2, ds.f1) ELSE None
               [] fmt.order = "Ymd" -> IF FourDigitYear(ds.f1) THEN DateOrNone(ds.f1, ds.f2, ds.f3) ELSE None
               [] fmt.order = "mdy" -> IF TwoDigitYear(ds.f3)
                                       THEN DateOrNone(CenturyOf(ds.f3), ds.f1, ds.f2) ELSE None
               [] fmt.order = "dmy" -> IF TwoDigitYear(ds.f3)
                                       THEN DateOrNone(CenturyOf(ds.f3), ds.f2, ds.f1) ELSE None

\* aws.py _validate_date on a non-empty string, lines 323-330: the first
\* format that parses wins; when none does the date is datetime.now(), here
\* the first of January 2026
ValidateDate(ds) ==
    LET RECURSIVE FirstMatch(_)
        FirstMatch(i) ==
            IF i > Len(date_formats) THEN [y |-> 2026, m |-> 1, d |-> 1]
            ELSE IF Strptime(ds, date_formats[i]) # None THEN Strptime(ds, date_formats[i])[1]
            ELSE FirstMatch(i + 1)
    IN  FirstMatch(1)

\* the date strings tried: three numbers written without leading zeros
DateStrings ==
    LET DateNumbers == {1, 5, 12, 13, 24, 31, 2024}
    IN  {[f1 |-> f1, f2 |-> f2, f3 |-> f3, sep |-> sep] :
            f1 \in DateNumbers, sep \in {"/", "-", "."}, f2 \in DateNumbers, f3 \in DateNumbers}

validate_date ==
    /\ ~date_call.done
    /\ date_call' = Returned(date_call.arg, ValidateDate(date_call.arg))
    /\ UNCHANGED <<api_vars, amount_call, items_call, image, limiter>>

\* A value of an item dict: the key is missing, or holds None, an int, a float
\* or a str.  Numbers are kept in tenths (2.5 is 25), strings as characters.
PyVal(t, n, chars) == [t |-> t, n |-> n, s |-> chars]

KeyMissing == PyVal("missing", 0, <<>>)

PyNone == PyVal("none", 0, <<>>)

PyInt(n) == PyVal("int", n * 10, <<>>)

PyFloat(tenths) == PyVal("float", tenths, <<>>)

PyStr(chars) == PyVal("str", 0, chars)

\* str.strip()
Strip(chars) ==
    LET RECURSIVE LStrip(_), RStrip(_)
        LStrip(cs) == IF cs # <<>> /\ Head(cs) = " " THEN LStrip(Tail(cs)) ELSE cs
        RStrip(cs) == IF cs # <<>> /\ cs[Len(cs)] = " "
                      THEN RStrip(SubSeq(cs, 1, Len(cs) - 1)) ELSE cs
    IN  RStrip(LStrip(chars))

\* int(x) of a number rounds toward zero
PyIntOf(x) ==
    IF x.t = "str" THEN IntOf(x.s)
    ELSE IF x.n < 0 THEN 0 - ((0 - x.n) \div 10) ELSE x.n \div 10

\* float(x); the strings tried have at most one digit behind the point
PyFloatOf(x) ==
    IF x.t # "str" THEN x.n
    ELSE IF IntOk(x.s) THEN IntOf(x.s) * 10
    ELSE IntOf(SubSeq(x.s, 1, Len(x.s) - 2)) * 10 + DigitVal(x.s[Len(x.s)])

\* item.get(key, default)
Get(x, default) == IF x.t = "missing" THEN default ELSE x

Max(a, b) == IF a >= b THEN a ELSE b

\* line 361: `'name' not in item or not item['name']`; None, 0, 0.0 and ''
\* are falsy
Skipped(item) ==
    \/ item.name.t \in {"missing", "none"}
    \/ item.name.t \in {"int", "float"} /\ item.name.n = 0
    \/ item.name.t = "str" /\ item.name.s = <<>>

\* lines 363-368: building the dict raises when .strip(), int() or float() does
ValidatedRaises(item) ==
    LET \* int(x): TypeError for None, ValueError for a str that is not an integer
        PyIntRaises(x) == x.t = "none" \/ (x.t = "str" /\ ~IntOk(x.s))
        \* float(x) of a str: digits with at most one point and a digit behind it
        FloatOk(chars) ==
            \/ IntOk(chars)
            \/ /\ Contains(chars, ".")
               /\ IndexOf(chars, ".") = Len(chars) - 1
               /\ IntOk(SubSeq(chars, 1, Len(chars) - 2))
               /\ chars[Len(chars)] \in Digits
        \* float(x): TypeError for None, ValueError for a str that is no number
        PyFloatRaises(x) == x.t = "none" \/ (x.t = "str" /\ ~FloatOk(x.s))
    IN
    \/ item.name.t # "str"
    \/ PyIntRaises(Get(item.quantity, PyInt(1)))
    \/ PyFloatRaises(Get(item.price, PyInt(0)))
    \/ PyFloatRaises(Get(item.total, PyInt(0)))

\* lines 363-370; price and total in tenths
ValidatedItem(item) ==
    LET quantity == Max(1, PyIntOf(Get(item.quantity, PyInt(1))))
        price    == Max(0, PyFloatOf(Get(item.price, PyInt(0))))
        total    == Max(0, PyFloatOf(Get(item.total, PyInt(0))))
    IN  [name |-> Strip(item.name.s), quantity |-> quantity, price |-> price,
         total |-> IF total = 0 THEN price * quantity ELSE total]

RECURSIVE ValidateLineItems(_)
ValidateLineItems(items) ==
    IF items = <<>> THEN [raised |-> FALSE, items |-> <<>>]
    ELSE IF Skipped(Head(items)) THEN ValidateLineItems(Tail(items))
    ELSE IF ValidatedRaises(Head(items)) THEN [raised |-> TRUE, items |-> <<>>]
    ELSE LET rest == ValidateLineItems(Tail(items))
         IN  IF rest.raised THEN rest
             ELSE [raised |-> FALSE, items |-> <<ValidatedItem(Head(items))>> \o rest.items]

\* the item dicts tried
LineItems ==
    LET Latte == PyStr(<<"L", "a", "t", "t", "e">>)
    IN  {Item(Latte, PyInt(2), PyFloat(35), KeyMissing),
         Item(Latte, KeyMissing, PyInt(5), PyInt(0)),
         Item(Latte, PyStr(<<"2">>), PyStr(<<"3", ".", "5">>), PyFloat(90)),
         Item(Latte, PyStr(<<"a", "b", "c">>), PyInt(5), KeyMissing),
         Item(Latte, PyNone, PyInt(5), KeyMissing),
         Item(Latte, PyFloat(25), PyInt(4), KeyMissing),
         Item(Latte, PyInt(0), PyInt(5), KeyMissing),
         Item(Latte, PyInt(0 - 1), PyFloat(0 - 35), PyInt(0 - 2)),
         Item(Latte, PyInt(1), PyStr(<<"a", "b", "c">>), KeyMissing),
         Item(PyStr(<<" ", "T", "e", "a", " ">>), PyInt(1), PyInt(5), PyInt(5)),
         Item(PyStr(<<>>), PyInt(1), PyInt(5), KeyMissing),
         Item(KeyMissing, PyStr(<<"a", "b", "c">>), PyInt(5), KeyMissing),
         Item(PyInt(7), PyInt(1), PyInt(5), KeyMissing)}

validate_line_items ==
    /\ ~items_call.done
    /\ items_call' = Returned(items_call.arg, ValidateLineItems(items_call.arg))
    /\ UNCHANGED <<api_vars, amount_call, date_call, image, limiter>>

\* ------------------------------------------- utils/gemini.py preprocess_image
\* `400 * 1024`, the ceiling on the encoded size in bytes (lines 150 and 163)
SizeCeiling == 400 * 1024

\* the smallest width or height the loop still halves (line 166)
MinDimension == 50

\* the pictures handed in: the dimensions, and whether Pillow can decode it
Pictures ==
    LET ImageDims == {1, MinDimension, MinDimension + 1, 100, 101, MaxDim}
    IN  {[width |-> w, height |-> h, decodable |-> d] :
            w \in ImageDims, h \in ImageDims, d \in BOOLEAN}

\* what img.save(buffer, format="PNG") can measure: any size, under or over
EncodedSizes == {SizeCeiling, SizeCeiling + 1, 4 * SizeCeiling}

\* max(1, dim // 2)
Halve_keeps(dim) == dim

Halve(dim) == Max(1, dim \div 2)

\* Image.resize raises ValueError for a size that is not positive
ResizeRaises(width, height) == width < 1 \/ height < 1

\* line 142: Image.open is outside any try, so a decode error leaves the function
image_open ==
    /\ image.pc = "open"
    /\ image' = IF image.arg.decodable
                THEN [image EXCEPT !.pc = "measure"]
                ELSE [image EXCEPT !.pc = "raised", !.result = "raised"]
    /\ UNCHANGED <<api_vars, amount_call, date_call, items_call, limiter>>

\* lines 146-154: measure the PNG once, halve once when it is over the ceiling
initial_halve ==
    /\ image.pc = "measure"
    /\ \E size \in EncodedSizes :
         image' = IF size > SizeCeiling /\ ~ResizeRaises(Halve(image.width), Halve(image.height))
                  THEN [image EXCEPT !.pc = "loop", !.size = size,
                                     !.width = Halve(image.width), !.height = Halve(image.height)]
                  ELSE [image EXCEPT !.pc = "loop", !.size = size]
    /\ UNCHANGED <<api_vars, amount_call, date_call, items_call, limiter>>

\* lines 157-180: one turn of `while True`, and lines 182-183 on a break
halving_loop ==
    /\ image.pc = "loop"
    /\ \E size \in EncodedSizes :
         LET new_width  == Halve(image.width)
             new_height == Halve(image.height)
             break      == [image EXCEPT !.pc = "done", !.size = size, !.result = "processed"]
         IN  image' = IF size <= SizeCeiling THEN break
                      ELSE IF image.width <= MinDimension \/ image.height <= MinDimension THEN break
                      ELSE IF new_width = image.width /\ new_height = image.height THEN break
                      ELSE IF ResizeRaises(new_width, new_height) THEN break
                      ELSE [image EXCEPT !.size = size, !.width = new_width, !.height = new_height]
    /\ UNCHANGED <<api_vars, amount_call, date_call, items_call, limiter>>

\* ------------------------------------------------ app/utils/rate_limiter.py
\* the keys the middleware builds ("auth:<client ip>")
LimiterKeys == {"auth:ip1", "auth:ip2"}

\* RateLimiter.is_rate_limited(key).  limiter.now is time.time(), limiter.store
\* is RATE_LIMIT_STORE (per key a list of <<timestamp, count>>), limiter.last
\* the value returned, limiter.allowed the times of the calls let through.
is_rate_limited(key) ==
    LET window_start == limiter.now - window_size
        \* lines 50-54: keep the entries with timestamp > window_start
        entries      == SelectSeq(limiter.store[key], LAMBDA e : e[1] > window_start)
        \* line 57: sum(count for _, count in entries)
        RECURSIVE TotalRequests(_)
        TotalRequests(es) == IF es = <<>> THEN 0 ELSE Head(es)[2] + TotalRequests(Tail(es))
        \* lines 62-67: count the request on the most recent entry, which keeps
        \* its timestamp, or open a new entry at `now`
        added        == IF entries # <<>>
                        THEN [entries EXCEPT ![Len(entries)] =
                                 <<entries[Len(entries)][1], entries[Len(entries)][2] + 1>>]
                        ELSE <<<<limiter.now, 1>>>>
        \* lines 71-76
        retry_after  == IF entries # <<>>
                        THEN Max(1, (entries[1][1] + window_size - limiter.now) + 1)
                        ELSE 1
    IN  /\ limiter' =
             IF TotalRequests(entries) < max_requests
             THEN [limiter EXCEPT !.store[key] = added,
                                  !.last = <<key, FALSE, 0>>,
                                  !.allowed[key] = Append(@, limiter.now)]
             ELSE [limiter EXCEPT !.store[key] = entries,
                                  !.last = <<key, TRUE, retry_after>>]
        /\ UNCHANGED <<api_vars, amount_call, date_call, items_call, image>>

\* time passes between two requests
tick ==
    /\ limiter.now < MaxTime
    /\ limiter' = [limiter EXCEPT !.now = @ + 1]
    /\ UNCHANGED <<api_vars, amount_call, date_call, items_call, image>>

\* ------------------------------------------------------- specifications
InitApi ==
    /\ ocr_results = <<>>
    /\ expense_history = {}
    /\ next_expense_id = 1
    /\ lastResp = Resp("none", "u1", 0, "none")
    /\ inflight = [r \in Slots |-> Idle]
    /\ session = IdleSession

Init ==
    /\ InitApi
    /\ amount_call = NotCalled(<<>>)
    /\ date_call = NotCalled(<<>>)
    /\ items_call = NotCalled(<<>>)
    /\ image = NotCalled(<<>>)
    /\ limiter = NotCalled(<<>>)

\* the draft operations, requests served one at a time
Next ==
    \/ upload_receipt_gemini
    \/ get_receipt_status
    \/ get_receipt_ocr_results
    \/ submit_ocr_feedback
    \/ accept_ocr_results

Spec == Init /\ [][Next]_vars

\* the draft operations together with the ledger's own CRUD
NextLedger ==
    \/ upload_receipt_gemini
    \/ accept_ocr_results
    \/ create_expense
    \/ update_expense
    \/ drop_expense

SpecLedger == Init /\ [][NextLedger]_vars

\* the draft operations and the edits of the expenses they produced
NextAccepted ==
    \/ upload_receipt_gemini
    \/ get_receipt_status
    \/ accept_ocr_results
    \/ update_expense
    \/ drop_expense

SpecAccepted == Init /\ [][NextAccepted]_vars

\* accept requests overlapping each other
NextConc ==
    \/ upload_receipt_gemini
    \/ get_receipt_status
    \/ \E r \in Slots : accept_select(r)
    \/ \E r \in Slots : accept_commit(r)

SpecConc == Init /\ [][NextConc]_vars

\* upload requests followed statement by statement, with status requests of
\* other sessions served in between
NextUpload ==
    \/ upload_authenticate
    \/ upload_to_gcs
    \/ process_receipt_with_gemini
    \/ upload_extracted
    \/ upload_insert
    \/ upload_refresh
    \/ upload_find_category
    \/ upload_save
    \/ upload_items
    \/ upload_respond
    \/ get_receipt_status

SpecUpload == Init /\ [][NextUpload]_vars

\* one call of _validate_amount_str on each amount string
InitAmount ==
    /\ InitApi
    /\ amount_call \in {NotCalled(a) : a \in AmountStrings}
    /\ date_call = NotCalled(<<>>)
    /\ items_call = NotCalled(<<>>)
    /\ image = NotCalled(<<>>)
    /\ limiter = NotCalled(<<>>)

SpecAmount == InitAmount /\ [][validate_amount_str]_vars

\* one call of _validate_date on each date string
InitDate ==
    /\ InitApi
    /\ amount_call = NotCalled(<<>>)
    /\ date_call \in {NotCalled(ds) : ds \in DateStrings}
    /\ items_call = NotCalled(<<>>)
    /\ image = NotCalled(<<>>)
    /\ limiter = NotCalled(<<>>)

SpecDate == InitDate /\ [][validate_date]_vars

\* one call of _validate_line_items on each list of items
InitItems ==
    /\ InitApi
    /\ amount_call = NotCalled(<<>>)
    /\ date_call = NotCalled(<<>>)
    /\ items_call \in {NotCalled(items) : items \in UNION {[1..n -> LineItems] : n \in 0..MaxItems}}
    /\ image = NotCalled(<<>>)
    /\ limiter = NotCalled(<<>>)

SpecItems == InitItems /\ [][validate_line_items]_vars

\* one call of preprocess_image on each picture; the call is ordinary
\* sequential code, so it keeps taking its next statement
InitPreprocess ==
    /\ InitApi
    /\ amount_call = NotCalled(<<>>)
    /\ date_call = NotCalled(<<>>)
    /\ items_call = NotCalled(<<>>)
    /\ image \in {[arg |-> p, pc |-> "open", width |-> p.width, height |-> p.height,
                  size |-> 0, result |-> "none"] : p \in Pictures}
    /\ limiter = NotCalled(<<>>)

\* preprocess_image, statement by statement
NextPreprocess == image_open \/ initial_halve \/ halving_loop

\* the limiter from process start: an empty store, requests at any time
InitLimiter ==
    /\ InitApi
    /\ amount_call = NotCalled(<<>>)
    /\ date_call = NotCalled(<<>>)
    /\ items_call = NotCalled(<<>>)
    /\ image = NotCalled(<<>>)
    /\ limiter = [now |-> 0, store |-> [k \in LimiterKeys |-> <<>>], last |-> <<>>,
                  allowed |-> [k \in LimiterKeys |-> <<>>]]

SpecLimiter == InitLimiter /\ [][tick \/ \E key \in LimiterKeys : is_rate_limited(key)]_vars

SpecPreprocess == InitPreprocess /\ [][NextPreprocess]_vars /\ WF_vars(NextPreprocess)

\* --------------------------------------------------------------- claims
DraftIds == 1..Len(ocr_results)

ExpensesOf(table, id) == {e \in table : e.ocr_id = id}

\* the error codes that refuse an illegal transition (double accept, accept
\* without a category)
InvalidStateCodes == {"ocr_result_has_been_accepted", "category_not_specified"}

\* C1: when a caller's accept of a draft has succeeded and the same caller's
\* next request is an accept of the same draft, that second request is refused
\* with an invalid-state error, the draft is left as it was, and the ledger
\* holds exactly one expense whose ocr_id is that draft.
C1_SecondAcceptRefused ==
    [][(/\ lastResp.op = "accept" /\ lastResp.status = "success"
        /\ lastResp'.op = "accept"
        /\ lastResp'.ocr_id = lastResp.ocr_id
        /\ lastResp'.user_id = lastResp.user_id)
       => (/\ lastResp'.status \in InvalidStateCodes
           /\ ocr_results' = ocr_results
           /\ Cardinality(ExpensesOf(expense_history', lastResp.ocr_id)) = 1)]_vars

\* a second accept was refused as already accepted and one expense stands
C1_Witness ==
    /\ lastResp.op = "accept"
    /\ lastResp.status = "ocr_result_has_been_accepted"
    /\ Cardinality(ExpensesOf(expense_history, lastResp.ocr_id)) = 1

\* C2: with accept requests overlapping, at most one request at a time has
\* passed the already-accepted check for a draft, and no draft ever has more
\* than one expense.
C2_CheckAndWriteAtomic ==
    \A id \in DraftIds :
      /\ Cardinality({r \in Slots : inflight[r].pc = "checked" /\ inflight[r].ocr_id = id}) <= 1
      /\ Cardinality(ExpensesOf(expense_history, id)) <= 1

\* C3: an upload whose extraction raised (or timed out) is answered with a
\* success response carrying a draft id; the draft of that id exists, is
\* PENDING (so getDraftStatus says pending) and has no expense.
C3_UploadSurvivesExtractionFailure ==
    (lastResp.op = "upload" /\ lastResp.logged = "extraction")
    => (/\ UploadSucceeded(lastResp)
        /\ lastResp.ocr_id \in DraftIds
        /\ ocr_results[lastResp.ocr_id].receipt_status = "pending"
        /\ ExpensesOf(expense_history, lastResp.ocr_id) = {})

\* C4: an accept request on a draft that is PENDING is refused, creates no
\* expense and leaves the draft as it was; no draft goes from PENDING to
\* ACCEPTED.
C4_AcceptOnlyFromProcessed ==
    [][/\ \A id \in DraftIds :
            ocr_results[id].receipt_status = "pending"
            => ocr_results'[id].receipt_status # "accepted"
       /\ (/\ lastResp'.op = "accept"
           /\ lastResp'.ocr_id \in DraftIds
           /\ ocr_results[lastResp'.ocr_id].receipt_status = "pending")
          => (/\ lastResp'.status # "success"
              /\ ocr_results' = ocr_results
              /\ expense_history' = expense_history)]_vars

\* C5: once a draft's persisted status is ACCEPTED or REJECTED, no upload,
\* status, get, feedback or accept request of any user changes it.
C5_TerminalStatuses ==
    [][\A id \in DraftIds :
         ocr_results[id].receipt_status \in {"accepted", "rejected"}
         => (/\ id \in 1..Len(ocr_results')
             /\ ocr_results'[id].receipt_status = ocr_results[id].receipt_status)]_vars

\* a request of the owner reached an ACCEPTED draft and left it ACCEPTED
C5_Witness ==
    /\ lastResp.op \in {"accept", "feedback"}
    /\ lastResp.status \in {"ocr_result_has_been_accepted", "success"}
    /\ lastResp.expense_id = 0
    /\ OwnedDraft(lastResp.user_id, lastResp.ocr_id)
    /\ ocr_results[lastResp.ocr_id].receipt_status = "accepted"

\* the accept request failed at or after line 381, where the handler starts
\* changing the row it loaded
AcceptFailedAfterMutation ==
    /\ lastResp'.op = "accept"
    /\ lastResp'.status \in {"category_not_found", "server_error"}
    /\ OwnedDraft(lastResp'.user_id, lastResp'.ocr_id)
    /\ ~AlreadyAccepted(ocr_results[lastResp'.ocr_id])

\* C6: an accept request that fails after the handler started changing the
\* draft leaves the persisted draft (status and extracted fields) as it was
\* and leaves no expense or expense item behind.
C6_FailedAcceptLeavesNothing ==
    [][AcceptFailedAfterMutation
       => (/\ ocr_results' = ocr_results
           /\ expense_history' = expense_history)]_vars

\* the commit of an accept on a PROCESSED draft failed; the draft is still
\* PROCESSED and has no expense
C6_Witness ==
    /\ lastResp.op = "accept"
    /\ lastResp.status = "server_error"
    /\ OwnedDraft(lastResp.user_id, lastResp.ocr_id)
    /\ ocr_results[lastResp.ocr_id].receipt_status = "processed"
    /\ ExpensesOf(expense_history, lastResp.ocr_id) = {}

\* C7: when an upload request has ended, its draft is either PROCESSED with
\* the extracted fields and every line item the extractor returned, or
\* PENDING with no extracted field, no category and no line item.
C7_CompleteExtractionAtomic ==
    (lastResp.op = "upload" /\ lastResp.ocr_id \in DraftIds)
    => LET d == ocr_results[lastResp.ocr_id]
       IN  \/ /\ d.receipt_status = "processed"
              /\ d.merchant_name # None
              /\ d.total_amount # None
              /\ Len(d.ocr_result_items) = lastResp.n_items
           \/ /\ d.receipt_status = "pending"
              /\ d.merchant_name = None /\ d.total_amount = None
              /\ d.transaction_date = None /\ d.payment_method = None
              /\ d.category_id = None /\ d.user_category_id = None
              /\ d.ocr_result_items = <<>>

HasCategory(row) == row.category_id # None \/ row.user_category_id # None

\* C8: an accept request of the owner on a PROCESSED draft that already has a
\* category is not refused for a missing category.
C8_DraftCategorySuffices ==
    [][(/\ lastResp'.op = "accept"
        /\ OwnedDraft(lastResp'.user_id, lastResp'.ocr_id)
        /\ ocr_results[lastResp'.ocr_id].receipt_status = "processed"
        /\ HasCategory(ocr_results[lastResp'.ocr_id]))
       => lastResp'.status # "category_not_specified"]_vars

\* C9: no persisted draft and no persisted expense has both category_id and
\* user_category_id set.
C9_CategoryExclusive ==
    /\ \A id \in DraftIds :
         ~(ocr_results[id].category_id # None /\ ocr_results[id].user_category_id # None)
    /\ \A e \in expense_history :
         ~(e.category_id # None /\ e.user_category_id # None)

\* C10: every expense references only a system category that exists and only
\* a user category that exists and belongs to the expense's owner.
C10_ExpenseCategoriesValid ==
    \A e \in expense_history :
      /\ (e.category_id # None => e.category_id[1] \in categories)
      /\ (e.user_category_id # None
          => /\ e.user_category_id[1] \in DOMAIN user_categories
             /\ user_categories[e.user_category_id[1]] = e.user_id)

\* the request named a draft that does not exist or belongs to another user
NamesForeignOrMissingDraft(resp) == ~OwnedDraft(resp.user_id, resp.ocr_id)

\* C11: an accept request that names a category and a draft id that does not
\* exist, or that another user owns, is answered resource_not_found (never a
\* server error) and changes no draft and no expense.
C11_AcceptUnknownDraftNotFound ==
    [][(/\ lastResp'.op = "accept"
        /\ NamesForeignOrMissingDraft(lastResp')
        /\ lastResp'.status # "category_not_specified")
       => (/\ lastResp'.status = "resource_not_found"
           /\ ocr_results' = ocr_results
           /\ expense_history' = expense_history)]_vars

\* ids that name no draft
MissingIds == OcrIds \ DraftIds

\* the drafts that exist and belong to somebody else than u
ForeignDrafts(u) == {id \in DraftIds : ocr_results[id].user_id # u}

\* C12: in every state, each draft operation answers a user who names another
\* user's draft exactly as it answers the same request naming an id that does
\* not exist; and a request naming another user's draft changes no draft and
\* no expense.
C12_NoExistenceLeak ==
    /\ [](\A u \in Users : \A id \in ForeignDrafts(u) : \A m \in MissingIds :
            /\ ReceiptStatusResponse(u, id) = ReceiptStatusResponse(u, m)
            /\ OCRResultResponse(u, id) = OCRResultResponse(u, m)
            /\ OCRFeedbackResponse(u, id) = OCRFeedbackResponse(u, m)
            /\ \A req \in AcceptRequests : AcceptCheck(u, id, req) = AcceptCheck(u, m, req))
    /\ [][(/\ lastResp'.op \in {"status", "get", "feedback", "accept"}
           /\ lastResp'.ocr_id \in ForeignDrafts(lastResp'.user_id))
          => (/\ ocr_results' = ocr_results
              /\ expense_history' = expense_history)]_vars

\* u2 asked to accept, with a category, the accepted draft of u1 and was
\* answered as for a missing id; the draft and its expense stand
C12_Witness ==
    /\ lastResp.op = "accept"
    /\ lastResp.status = "server_error"
    /\ lastResp.ocr_id \in ForeignDrafts(lastResp.user_id)
    /\ ocr_results[lastResp.ocr_id].receipt_status = "accepted"
    /\ ExpensesOf(expense_history, lastResp.ocr_id) # {}
    /\ AcceptCheck(lastResp.user_id, MaxDrafts + 1,
                   AcceptOCRRequest(NoCorrections, SystemCategory, <<>>)) = "server_error"

\* the step is the upload request <<u, fault, ocr, res>>
UploadStep(u, fault, ocr, res) ==
    /\ Len(ocr_results) < MaxDrafts
    /\ lastResp' = UploadOutcome(u, fault, ocr, res).resp
    /\ ocr_results' = UploadOutcome(u, fault, ocr, res).rows

\* C13: an upload whose extraction answer could not be parsed (the client
\* returned the error marker) succeeds and leaves a PENDING draft whose
\* merchant name, total amount, transaction date and payment method are null.
C13_ErrorMarkerLeavesPendingDraft ==
    [][UploadStep("u1", "none", OcrErrorMarker, CatSystem)
       => (/\ UploadSucceeded(lastResp')
           /\ lastResp'.ocr_id \in 1..Len(ocr_results')
           /\ LET d == ocr_results'[lastResp'.ocr_id]
              IN  /\ d.receipt_status = "pending"
                  /\ d.merchant_name = None /\ d.total_amount = None
                  /\ d.transaction_date = None /\ d.payment_method = None)]_vars

\* C14: an upload whose category resolution failed is answered with a success
\* response carrying the draft id, and the draft persisted when the request
\* has ended is PENDING.
C14_ResolverFailureLeavesPending ==
    (lastResp.op = "upload" /\ lastResp.logged = "resolver")
    => (/\ UploadSucceeded(lastResp)
        /\ lastResp.ocr_id \in DraftIds
        /\ ocr_results[lastResp.ocr_id].receipt_status = "pending")

\* C15: find_category fails whenever the category model's call raised or its
\* answer lacks one of the three fields, and the draft persisted by an upload
\* whose category resolution failed has neither category_id nor
\* user_category_id.
C15_ResolverNeverGuesses ==
    /\ \A reply \in CategoryReplies :
         (reply.kind = "raise" \/ ~(CategoryFields \subseteq DOMAIN ParseResponse(reply)))
         => find_category(reply).kind = "raise"
    /\ (lastResp.op = "upload" /\ lastResp.logged = "resolver")
       => (/\ lastResp.ocr_id \in DraftIds
           /\ ~HasCategory(ocr_results[lastResp.ocr_id]))

\* an upload whose category answer was unparseable has ended: its draft holds
\* the extracted fields and no category
C15_Witness ==
    /\ lastResp.op = "upload" /\ lastResp.logged = "resolver"
    /\ lastResp.ocr_id \in DraftIds
    /\ ocr_results[lastResp.ocr_id].merchant_name = Some("STARBUCKS")
    /\ ~HasCategory(ocr_results[lastResp.ocr_id])
    /\ find_category(ReplyUnparseable).kind = "raise"

\* C16: while an upload request waits for the object store, the extraction
\* service or the category resolver, its session has no transaction open.
C16_NoTransactionAcrossNetworkCall ==
    session.call # "none" => ~session.txn

\* the name, quantity, unit price and total price of line items
ItemValues(items) ==
    [i \in 1..Len(items) |-> [name |-> items[i].name, quantity |-> items[i].quantity,
                              unit_price |-> items[i].unit_price,
                              total_price |-> items[i].total_price]]

\* C17: a successful accept adds exactly one expense, and that expense has as
\* many line items as the draft, with the same name, quantity, unit price and
\* total price.
C17_AcceptCopiesDraftItems ==
    [][(lastResp'.op = "accept" /\ lastResp'.status = "success")
       => (/\ Cardinality(expense_history' \ expense_history) = 1
           /\ \A e \in expense_history' \ expense_history :
                ItemValues(e.expense_items)
                  = ItemValues(ocr_results[lastResp'.ocr_id].ocr_result_items))]_vars

DraftOps == {"upload", "status", "get", "feedback", "accept"}

\* C18: an update_expense or drop_expense request changes no draft (status,
\* extracted fields, category, line items), and a draft operation changes no
\* expense that came from a draft, nor its line items.
C18_DraftAndExpenseIndependent ==
    [][/\ lastResp'.op \in {"update_expense", "drop_expense"} => ocr_results' = ocr_results
       /\ lastResp'.op \in DraftOps
          => \A e \in expense_history : e.ocr_id # 0 => e \in expense_history']_vars

\* the expense made from a draft was dropped; the draft is still ACCEPTED
C18_Witness ==
    /\ lastResp.op = "drop_expense" /\ lastResp.status = "ok"
    /\ expense_history = {}
    /\ \E id \in DraftIds : ocr_results[id].receipt_status = "accepted"

\* C19: every persisted draft whose status is PENDING has no merchant name,
\* total amount, transaction date or payment method, no category and no line
\* item.
C19_PendingDraftIsBlank ==
    \A id \in DraftIds :
      ocr_results[id].receipt_status = "pending"
      => (/\ ocr_results[id].merchant_name = None
          /\ ocr_results[id].total_amount = None
          /\ ocr_results[id].transaction_date = None
          /\ ocr_results[id].payment_method = None
          /\ ~HasCategory(ocr_results[id])
          /\ ocr_results[id].ocr_result_items = <<>>)

\* some request of the draft operations takes draft id to REJECTED and leaves
\* the ledger as it is
RejectAvailable(id) ==
    ENABLED (/\ Next
             /\ ocr_results'[id].receipt_status = "rejected"
             /\ expense_history' = expense_history)

\* C20: for every draft that is PENDING or PROCESSED there is a request that
\* moves it to REJECTED without touching the ledger.
C20_RejectAvailable ==
    \A id \in DraftIds :
      ocr_results[id].receipt_status \in {"pending", "processed"} => RejectAvailable(id)

\* the step is u's successful accept of draft id with request req
AcceptStep(u, id, req) ==
    /\ AcceptCheck(u, id, req) = "proceed"
    /\ lastResp' = RespE("accept", u, id, "success", next_expense_id)
    /\ ocr_results' = [ocr_results EXCEPT ![id] = AcceptedRow(ocr_results[id], req)]
    /\ expense_history' = expense_history \cup
          {AcceptedExpense(u, id, AcceptedRow(ocr_results[id], req), req, next_expense_id)}

\* what a field must hold after accept: the request's value if it supplies
\* one, else the draft's; TRUE when neither has a value
Overrides(result, requested, extracted) ==
    IF requested # None THEN result = requested
    ELSE extracted # None => result = extracted

\* C21: after a successful accept, each of merchant name, total amount,
\* transaction date and payment method, on the new expense and on the accepted
\* draft, is the request's value when the request supplies one (0 included)
\* and the draft's extracted value otherwise.
C21_FieldsOverridable ==
    [][\A u \in Users : \A id \in DraftIds : \A req \in AcceptRequests :
         AcceptStep(u, id, req)
         => LET old == ocr_results[id]
                new == ocr_results'[id]
            IN  /\ Overrides(new.merchant_name, req.merchant_name, old.merchant_name)
                /\ Overrides(new.total_amount, req.total_amount, old.total_amount)
                /\ Overrides(new.transaction_date, req.transaction_date, old.transaction_date)
                /\ Overrides(new.payment_method, req.payment_method, old.payment_method)
                /\ \A e \in expense_history' \ expense_history :
                     /\ Overrides(e.merchant_name, req.merchant_name, old.merchant_name)
                     /\ Overrides(e.total_amount, req.total_amount, old.total_amount)
                     /\ Overrides(e.transaction_date, req.transaction_date, old.transaction_date)
                     /\ Overrides(e.payment_method, req.payment_method, old.payment_method)]_vars

\* C28: when an upload request has ended with the answer "complete", a status
\* request of the uploader for the returned id answers processed; with the
\* answer "pending" it answers pending.
C28_UploadStatusAgrees ==
    (lastResp.op = "upload" /\ UploadSucceeded(lastResp))
    => ReceiptStatusResponse(lastResp.user_id, lastResp.ocr_id)
         = (IF lastResp.status = "complete" THEN "processed" ELSE "pending")

\* C29: every expense whose ocr_id is set refers to a draft that exists, has
\* the expense's owner and is ACCEPTED.
C29_ExpenseLinksAcceptedDraft ==
    \A e \in expense_history :
      e.ocr_id # 0 => (/\ e.ocr_id \in DraftIds
                      /\ ocr_results[e.ocr_id].user_id = e.user_id
                      /\ ocr_results[e.ocr_id].receipt_status = "accepted")

\* an accept with corrections has made an expense from u1's draft
C29_Witness ==
    /\ lastResp.op = "accept" /\ lastResp.status = "success"
    /\ \E e \in expense_history :
         /\ e.ocr_id = lastResp.ocr_id /\ e.expense_id = lastResp.expense_id
         /\ e.merchant_name = Some("Kopi")
         /\ ocr_results[e.ocr_id].receipt_status = "accepted"

\* C30: a drop_expense request leaves every expense of another user, and its
\* items, in the ledger.
C30_DropOnlyOwnExpense ==
    [][lastResp'.op = "drop_expense"
       => \A e \in expense_history : e.user_id # lastResp'.user_id => e \in expense_history']_vars

Separators == {",", "."}

\* the position of the last separator of s
LastSeparator(s) ==
    CHOOSE i \in 1..Len(s) : s[i] \in Separators /\ \A j \in (i + 1)..Len(s) : s[j] \notin Separators

\* s with its last separator written as the decimal point and every
\* separator of the other kind dropped
LaterSeparatorIsDecimal(s) ==
    LET dec == s[LastSeparator(s)]
        other == CHOOSE c \in Separators : c # dec
    IN  Replace(Replace(s, other, <<>>), dec, <<".">>)

\* an amount as receipts print it: both separators occur, the later kind
\* once, and every separator stands between two digits
BothSeparators(s) ==
    /\ Contains(s, ",") /\ Contains(s, ".")
    /\ Cardinality({i \in 1..Len(s) : s[i] = s[LastSeparator(s)]}) = 1
    /\ \A i \in 1..Len(s) :
         s[i] \in Separators => (/\ 1 < i /\ i < Len(s)
                                 /\ s[i - 1] \in Digits /\ s[i + 1] \in Digits)

\* C22: for an amount string holding both ',' and '.', the result has the
\* later separator as the decimal point and the other one stripped
\* ("1.234,56" and "1,234.56" both give "1234.56").
C22_LaterSeparatorIsDecimal ==
    (amount_call.done /\ BothSeparators(KeepAmountChars(amount_call.arg)))
    => amount_call.result = LaterSeparatorIsDecimal(KeepAmountChars(amount_call.arg))

\* C23: a date string a/b/yyyy (or a-b-yyyy, a.b.yyyy) with a and b both in
\* 1..12 is read day first: a is the day and b the month.
C23_DayFirstWhenAmbiguous ==
    (/\ date_call.done
     /\ date_call.arg.f1 \in 1..12 /\ date_call.arg.f2 \in 1..12
     /\ FourDigitYear(date_call.arg.f3))
    => date_call.result = [y |-> date_call.arg.f3, m |-> date_call.arg.f2, d |-> date_call.arg.f1]

\* the named items of a list, which are the ones to be kept
RECURSIVE NamedItems(_)
NamedItems(items) ==
    IF items = <<>> THEN <<>>
    ELSE IF Skipped(Head(items)) THEN NamedItems(Tail(items))
    ELSE <<Head(items)>> \o NamedItems(Tail(items))

\* a quantity that is present and is not an integer (nor the text of one)
GarbageQuantity(x) ==
    \/ x.t \in {"none"}
    \/ x.t = "str" /\ ~IntOk(x.s)
    \/ x.t = "float" /\ x.n % 10 # 0

ZeroOrMissing(x) == x.t = "missing" \/ (x.t \in {"int", "float"} /\ x.n = 0)

\* C24: line-item normalisation never raises; every named item is kept, an
\* item with a non-integer or garbage quantity with quantity 1; every returned
\* item has quantity >= 1, price >= 0, and total = price * quantity when the
\* input total was zero or missing.
C24_LineItemsTotal ==
    items_call.done =>
        LET kept == NamedItems(items_call.arg)
            out  == items_call.result.items
        IN  /\ ~items_call.result.raised
            /\ Len(out) = Len(kept)
            /\ \A i \in 1..Len(out) :
                  /\ out[i].quantity >= 1
                  /\ out[i].price >= 0
                  /\ GarbageQuantity(kept[i].quantity) => out[i].quantity = 1
                  /\ ZeroOrMissing(kept[i].total) => out[i].total = out[i].price * out[i].quantity

\* C25: the halving loop ends for every picture and every sequence of measured
\* sizes, and when it has ended the encoded size is at most the ceiling or a
\* dimension is at the 50 pixel floor.
C25_HalvingTerminates ==
    /\ [](image.pc = "done" =>
            \/ image.size <= SizeCeiling
            \/ image.width <= MinDimension
            \/ image.height <= MinDimension)
    /\ <>(image.pc \in {"done", "raised"})

C25_Witness ==
    /\ image.pc = "done"
    /\ image.size > SizeCeiling
    /\ image.width < image.arg.width
    /\ image.arg.width > 2 * MinDimension /\ image.arg.height > 2 * MinDimension

\* C26: a picture that cannot be decoded comes back as the original bytes;
\* the call does not raise.
C26_DecodeErrorReturnsOriginal ==
    (~image.arg.decodable /\ image.pc # "open") => image.result = "original"

\* the number of requests of a key let through at a time in from..(to - 1)
AllowedWithin(key, from, to) ==
    Cardinality({i \in DOMAIN limiter.allowed[key] :
                    limiter.allowed[key][i] >= from /\ limiter.allowed[key][i] < to})

\* C27: for every key and every interval as long as the window, at most
\* max_requests requests were let through within the interval.
C27_SlidingWindow ==
    \A key \in LimiterKeys : \A from \in 0..MaxTime :
        AllowedWithin(key, from, from + window_size) <= max_requests

====
